---- MODULE Spec2Model ----
(***************************************************************************)
(* Model of task3.js: a dice game with a commit/reveal "who moves first"   *)
(* step.  JavaScript values are records with a type tag t, so that NaN,    *)
(* undefined and -Infinity are values of their own and never integers.     *)
(***************************************************************************)
EXTENDS Integers, Sequences, FiniteSets

VARIABLES
    caller,      \* which call site is waiting for generateSecureRandomNumber
    rngPc,       \* position inside generateSecureRandomNumber
    rngRange,    \* its argument `range`
    byteSize,    \* its local `byteSize`
    num,         \* its local `num`
    ret,         \* value returned by the last completed library call
    err,         \* error thrown by the last completed library call
    lastOp,      \* name of the last completed library call
    dice,        \* the Dice object under test: [exists, values]
    protocol,    \* the FairNumberProtocol object: its fields
    protoState,  \* "none" | "constructing" | "ready"
    calcCount,   \* calculateResult calls completed on the current instance
    lastU,       \* argument of the last calculateResult call
    hmacLog,     \* the generateHMAC calls made: [key, message, digest, after]
    protoId,     \* history: number of FairNumberProtocol constructions begun
    keyOwner,    \* history: the construction that drew protocol.secretKey
    ctorLog,     \* history: the steps of the constructions, in order
    pc,          \* position of main: where the program waits or has ended
    argv,        \* process.argv.slice(2)
    diceSet,     \* GameFlow.diceSet: the values of each Dice
    console,     \* the terminal: lines written and lines typed, in order
    userGuess,   \* startGame's local userGuess
    userDice,    \* playRounds' local userDice
    userRoll     \* playRounds' local userRoll

rngVars == <<rngPc, rngRange, byteSize, num>>
callVars == <<ret, err, lastOp>>
ctorVars == <<protoId, keyOwner, ctorLog>>
protoVars == <<protocol, protoState, calcCount, lastU, hmacLog, ctorVars>>

gameVars == <<pc, argv, diceSet, console, userGuess, userDice, userRoll>>

vars == <<caller, rngVars, callVars, dice, protoVars, gameVars>>

----------------------------------------------------------------------------
(* Bounds of the model *)

MaxNegRange == 1
MaxRange == 3
MaxFaces == 2
MaxUser == 3
MaxCalls == 2
MaxByte == 5
MaxLog == 2
MaxInstances == 2

(* Program constants *)

KeyBytes == 32
ByteMax == 255
HexRadix == 16
FirstMoveRange == 2

----------------------------------------------------------------------------
(* JavaScript values *)

Num(n) == [t |-> "number", v |-> n]
NaN == [t |-> "NaN", v |-> 0]
NegInfinity == [t |-> "-Infinity", v |-> 0]
Undefined == [t |-> "undefined", v |-> 0]

IsInt(x) == x.t = "number"

\* a >= b on JS numbers: every comparison with NaN is false
JsGe(a, b) ==
    CASE a.t = "NaN" \/ b.t = "NaN" -> FALSE
      [] a.t = "-Infinity" -> b.t = "-Infinity"
      [] b.t = "-Infinity" -> TRUE
      [] OTHER -> a.v >= b.v

\* a % b of JS: the remainder takes the sign of the dividend (-0 is written
\* 0 here); NaN propagates and x % 0 is NaN
JsRem(a, b) ==
    IF ~IsInt(a) \/ ~IsInt(b) \/ b.v = 0 THEN NaN
    ELSE LET m == IF b.v < 0 THEN -b.v ELSE b.v
         IN  IF a.v >= 0 THEN Num(a.v % m) ELSE Num(-((-a.v) % m))

\* a + b of JS on numbers
JsAdd(a, b) == IF IsInt(a) /\ IsInt(b) THEN Num(a.v + b.v) ELSE NaN

----------------------------------------------------------------------------
(* Strings are sequences of one-character strings *)

HexDigits == <<"0", "1", "2", "3", "4", "5", "6", "7",
               "8", "9", "a", "b", "c", "d", "e", "f">>

\* Buffer.toString("hex"): two lower-case hex digits per byte
RECURSIVE ToHex(_)
ToHex(bytes) ==
    IF bytes = <<>> THEN <<>>
    ELSE <<HexDigits[(Head(bytes) \div HexRadix) + 1],
           HexDigits[(Head(bytes) % HexRadix) + 1]>> \o ToHex(Tail(bytes))

HexValue(c) == CHOOSE i \in 0..(HexRadix - 1) : HexDigits[i + 1] = c

RECURSIVE HexFold(_, _)
HexFold(acc, s) ==
    IF s = <<>> THEN acc ELSE HexFold(acc * HexRadix + HexValue(Head(s)), Tail(s))

\* parseInt(s, 16) on a string of hex digits: NaN when there is no digit
ParseIntHex(s) == IF s = <<>> THEN NaN ELSE Num(HexFold(0, s))

DecDigits == <<"0", "1", "2", "3", "4", "5", "6", "7", "8", "9">>

RECURSIVE NatToString(_)
NatToString(n) ==
    IF n < 10 THEN <<DecDigits[n + 1]>>
    ELSE NatToString(n \div 10) \o <<DecDigits[(n % 10) + 1]>>

\* Number.prototype.toString()
NumberToString(x) ==
    CASE x.t = "NaN" -> <<"N", "a", "N">>
      [] x.t = "-Infinity" -> <<"-", "I", "n", "f", "i", "n", "i", "t", "y">>
      [] x.t = "undefined" -> <<"u", "n", "d", "e", "f", "i", "n", "e", "d">>
      [] OTHER -> IF x.v < 0 THEN <<"-">> \o NatToString(-x.v)
                  ELSE NatToString(x.v)

----------------------------------------------------------------------------
(* crypto *)

\* the byte values the entropy source delivers in this model: the small
\* ones and the largest
Bytes == (0..MaxByte) \cup {ByteMax}

\* crypto.randomBytes(size) throws ERR_OUT_OF_RANGE unless size is a number >= 0
RandomBytesThrows(size) == ~IsInt(size) \/ size.v < 0

\* every buffer crypto.randomBytes(size) can deliver
RandomBytes(size) == [1..size.v -> Bytes]

\* the keys the entropy source delivers in this model: KeyBytes equal bytes
KeyByteValues == {0, 171}
KeyBuffers == {[i \in 1..KeyBytes |-> b] : b \in KeyByteValues}

\* Hmac objects: createHmac, update, digest("hex").  The digest is the
\* symbolic term of its algorithm, key and data.
createHmac(alg, key) == [alg |-> alg, key |-> key, data |-> <<>>]
update(h, s) == [h EXCEPT !.data = @ \o s]
digest(h) == [t |-> "digest", alg |-> h.alg, key |-> h.key, data |-> h.data]

NoDigest == [t |-> "undefined", alg |-> "", key |-> <<>>, data |-> <<>>]
NoKey == <<>>

\* generateHMAC on one Hmac object kept between calls: the data of the
\* previous digest is still in it
generateHMAC_sharedHmac(key, message) ==
    LET kept == IF ret.t = "digest" THEN ret.data ELSE <<>>
    IN  digest(update([createHmac("sha3-256", key) EXCEPT !.data = kept],
                      NumberToString(message)))

\* RandomGenerator.generateHMAC(key, message)
generateHMAC(key, message) ==
    digest(update(createHmac("sha3-256", key), NumberToString(message)))

----------------------------------------------------------------------------
(* RandomGenerator.generateSecureRandomNumber(range) *)

\* the least w >= 0 with 256^w >= n, for n >= 1
RECURSIVE CeilLog256(_, _, _)
CeilLog256(n, w, p) == IF p >= n THEN w ELSE CeilLog256(n, w + 1, p * (ByteMax + 1))

\* Math.ceil(Math.log2(range) / 8): log2 of a negative number is NaN and
\* log2(0) is -Infinity
ByteSizeOf(range) ==
    CASE range < 0 -> NaN
      [] range = 0 -> NegInfinity
      [] OTHER -> Num(CeilLog256(range, 0, 1))

\* the call: line 28 and `let num`
RngCall(site, range) ==
    /\ caller' = site
    /\ rngRange' = range
    /\ byteSize' = ByteSizeOf(range)
    /\ num' = Undefined
    /\ rngPc' = "draw"

\* the loop test `while (num >= range)`
Redraw(n, range) == JsGe(n, Num(range))

\* one iteration of the do-while loop: draw, parse, test
RngDraw ==
    /\ rngPc = "draw"
    /\ IF RandomBytesThrows(byteSize)
       THEN /\ rngPc' = "thrown"
            /\ num' = num
       ELSE \E b \in RandomBytes(byteSize) :
              /\ num' = ParseIntHex(ToHex(b))
              /\ rngPc' = IF Redraw(num', rngRange) THEN "draw" ELSE "return"
    /\ UNCHANGED <<gameVars, caller, rngRange, byteSize, callVars, dice, protoVars>>

\* the call is over: its locals are gone, its argument is kept for reference
RngIdle ==
    /\ caller' = "none"
    /\ rngPc' = "idle"
    /\ byteSize' = Undefined
    /\ num' = Undefined
    /\ UNCHANGED rngRange

----------------------------------------------------------------------------
(* Calls of the library from outside: the sampler and Dice *)

\* the ranges tried: small ones, the largest one a single byte covers and
\* the least one that needs two bytes
Ranges == ((-MaxNegRange)..MaxRange) \cup {ByteMax + 1, ByteMax + 2}

FaceValues == {2, 9}
FaceLists == UNION {[1..n -> FaceValues] : n \in 0..MaxFaces}

NoDice == [exists |-> FALSE, values |-> <<>>]

\* values[index] of JS: undefined unless index is an index of the array
ArrayGet(values, index) ==
    IF IsInt(index) /\ index.v \in 0..(Len(values) - 1)
    THEN Num(values[index.v + 1])
    ELSE Undefined

\* a call RandomGenerator.generateSecureRandomNumber(r)
Sample(r) ==
    /\ caller = "none"
    /\ RngCall("sample", r)
    /\ ret' = Undefined
    /\ err' = "none"
    /\ lastOp' = "sample"
    /\ UNCHANGED <<gameVars, dice, protoVars>>

SampleReturn ==
    /\ caller = "sample"
    /\ rngPc = "return"
    /\ ret' = num
    /\ RngIdle
    /\ UNCHANGED <<gameVars, err, lastOp, dice, protoVars>>

\* the exception of crypto.randomBytes leaves generateSecureRandomNumber
SampleThrow ==
    /\ caller = "sample"
    /\ rngPc = "thrown"
    /\ err' = "ERR_OUT_OF_RANGE"
    /\ RngIdle
    /\ UNCHANGED <<gameVars, ret, lastOp, dice, protoVars>>

\* new Dice(values)
NewDice(values) ==
    /\ caller = "none"
    /\ dice' = [exists |-> TRUE, values |-> values]
    /\ ret' = Undefined
    /\ err' = "none"
    /\ lastOp' = "newDice"
    /\ UNCHANGED <<gameVars, caller, rngVars, protoVars>>

\* dice.roll(): the call of the sampler with values.length
Roll ==
    /\ caller = "none"
    /\ dice.exists
    /\ RngCall("roll", Len(dice.values))
    /\ ret' = Undefined
    /\ err' = "none"
    /\ lastOp' = "roll"
    /\ UNCHANGED <<gameVars, dice, protoVars>>

\* dice.roll(): return this.values[randomIndex]
RollReturn ==
    /\ caller = "roll"
    /\ rngPc = "return"
    /\ ret' = ArrayGet(dice.values, num)
    /\ RngIdle
    /\ UNCHANGED <<gameVars, err, lastOp, dice, protoVars>>

RollThrow ==
    /\ caller = "roll"
    /\ rngPc = "thrown"
    /\ err' = "ERR_OUT_OF_RANGE"
    /\ RngIdle
    /\ UNCHANGED <<gameVars, ret, lastOp, dice, protoVars>>

NoProtocol ==
    [range |-> 0, secretKey |-> NoKey, computerNumber |-> Undefined,
     hmac |-> NoDigest]

InitObjects ==
    /\ caller = "none"
    /\ rngPc = "idle"
    /\ rngRange = 0
    /\ byteSize = Undefined
    /\ num = Undefined
    /\ ret = Undefined
    /\ err = "none"
    /\ lastOp = "none"
    /\ dice = NoDice
    /\ protocol = NoProtocol
    /\ protoState = "none"
    /\ calcCount = 0
    /\ lastU = 0
    /\ hmacLog = {}
    /\ protoId = 0
    /\ keyOwner = 0
    /\ ctorLog = <<>>
    /\ diceSet = <<>>
    /\ console = <<>>
    /\ userGuess = Undefined
    /\ userDice = NoDice
    /\ userRoll = Undefined

\* the library alone: main is not running
InitLibrary ==
    /\ InitObjects
    /\ pc = "off"
    /\ argv = <<>>

NextSampler ==
    \/ \E r \in Ranges : Sample(r)
    \/ RngDraw
    \/ SampleReturn
    \/ SampleThrow
    \/ \E values \in FaceLists : NewDice(values)
    \/ Roll
    \/ RollReturn
    \/ RollThrow

SpecSampler == InitLibrary /\ [][NextSampler]_vars

\* a draw that ends the loop
RngAccept == RngDraw /\ rngPc' # "draw"

\* the same calls with running code that goes on and an entropy source that
\* does not forever deliver only candidates the loop rejects
SpecSamplerFair ==
    /\ SpecSampler
    /\ SF_vars(RngAccept)
    /\ WF_vars(SampleReturn) /\ WF_vars(SampleThrow)
    /\ WF_vars(RollReturn) /\ WF_vars(RollThrow)

----------------------------------------------------------------------------
(* Calls of the library from outside: FairNumberProtocol *)

ProtoRanges == (-MaxNegRange)..MaxRange
UserNumbers == (-MaxUser)..MaxUser

Str(s) == [t |-> "string", s |-> s]

\* RandomGenerator.generateSecureRandomKey(): the hex string of a fresh buffer
generateSecureRandomKey(buffer) == ToHex(buffer)

\* one step of a construction: what was done, by which construction, and
\* for a key the construction that drew it (0 where no key is involved)
CtorStep(step, instance, owner) ==
    [step |-> step, instance |-> instance, keyOwner |-> owner]

\* the constructor of FairNumberProtocol, lines 46-48 up to the call of
\* the sampler: a fresh key and the range
CtorBegin(site, r) ==
    /\ \E buffer \in KeyBuffers :
         protocol' = [range |-> r,
                      secretKey |-> generateSecureRandomKey(buffer),
                      computerNumber |-> Undefined,
                      hmac |-> NoDigest]
    /\ protoState' = "constructing"
    /\ protoId' = protoId + 1
    /\ keyOwner' = protoId'
    /\ ctorLog' = ctorLog \o <<CtorStep("key", protoId', keyOwner'),
                               CtorStep("sample", protoId', 0)>>
    /\ RngCall(site, r)

\* the constructor after the sampler returned, lines 48-52
CtorEnd ==
    /\ protocol' = [protocol EXCEPT
                      !.computerNumber = num,
                      !.hmac = generateHMAC(protocol.secretKey, num)]
    /\ protoState' = "ready"
    /\ ctorLog' = Append(ctorLog, CtorStep("hmac", protoId, keyOwner))
    /\ UNCHANGED <<protoId, keyOwner>>
    /\ RngIdle

\* new FairNumberProtocol(r)
NewProtocol(r) ==
    /\ caller = "none"
    /\ protoId < MaxInstances
    /\ CtorBegin("ctor", r)
    /\ calcCount' = 0
    /\ lastU' = 0
    /\ ret' = Undefined
    /\ err' = "none"
    /\ lastOp' = "new"
    /\ UNCHANGED <<gameVars, dice, hmacLog>>

CtorReturn ==
    /\ caller = "ctor"
    /\ rngPc = "return"
    /\ CtorEnd
    /\ UNCHANGED <<gameVars, callVars, dice, calcCount, lastU, hmacLog>>

\* the exception of the sampler leaves the constructor: no object
CtorThrow ==
    /\ caller = "ctor"
    /\ rngPc = "thrown"
    /\ protocol' = NoProtocol
    /\ protoState' = "none"
    /\ err' = "ERR_OUT_OF_RANGE"
    /\ RngIdle
    /\ UNCHANGED <<gameVars, ret, lastOp, dice, calcCount, lastU, hmacLog,
                   ctorVars>>

\* getHMAC(): return this.hmac
getHMAC ==
    /\ caller = "none"
    /\ protoState = "ready"
    /\ ret' = protocol.hmac
    /\ err' = "none"
    /\ lastOp' = "getHMAC"
    /\ UNCHANGED <<gameVars, caller, rngVars, dice, protoVars>>

\* revealKey(): return this.secretKey
revealKey ==
    /\ caller = "none"
    /\ protoState = "ready"
    /\ ret' = Str(protocol.secretKey)
    /\ err' = "none"
    /\ lastOp' = "revealKey"
    /\ UNCHANGED <<gameVars, caller, rngVars, dice, protoVars>>

\* getComputerNumber(): return this.computerNumber
getComputerNumber ==
    /\ caller = "none"
    /\ protoState = "ready"
    /\ ret' = protocol.computerNumber
    /\ err' = "none"
    /\ lastOp' = "getComputerNumber"
    /\ UNCHANGED <<gameVars, caller, rngVars, dice, protoVars>>

\* the result with the counterpart value subtracted instead of added
ResultOf_minus(p, userNumber) ==
    JsRem(JsAdd(p.computerNumber, Num(-userNumber)), Num(p.range))

\* (this.computerNumber + userNumber) % this.range
ResultOf(p, userNumber) ==
    JsRem(JsAdd(p.computerNumber, Num(userNumber)), Num(p.range))

\* calculateResult storing its result in the object
calculateResult_storing(userNumber) ==
    /\ caller = "none"
    /\ protoState = "ready"
    /\ calcCount < MaxCalls
    /\ ret' = ResultOf(protocol, userNumber)
    /\ err' = "none"
    /\ lastOp' = "calculateResult"
    /\ calcCount' = calcCount + 1
    /\ lastU' = userNumber
    /\ protocol' = [protocol EXCEPT !.computerNumber = ret']
    /\ UNCHANGED <<gameVars, caller, rngVars, dice, protoState, hmacLog,
                   ctorVars>>

calculateResult(userNumber) ==
    /\ caller = "none"
    /\ protoState = "ready"
    /\ calcCount < MaxCalls
    /\ ret' = ResultOf(protocol, userNumber)
    /\ err' = "none"
    /\ lastOp' = "calculateResult"
    /\ calcCount' = calcCount + 1
    /\ lastU' = userNumber
    /\ UNCHANGED <<gameVars, caller, rngVars, dice, protocol, protoState, hmacLog,
                   ctorVars>>

NextProtocol ==
    \/ \E r \in ProtoRanges : NewProtocol(r)
    \/ RngDraw
    \/ CtorReturn
    \/ CtorThrow
    \/ getHMAC
    \/ revealKey
    \/ getComputerNumber
    \/ \E u \in UserNumbers : calculateResult(u)

SpecProtocol == InitLibrary /\ [][NextProtocol]_vars

----------------------------------------------------------------------------
(* Calls of the static methods of RandomGenerator from outside *)

\* the inputs tried: the keys of the model, and the numbers and ranges of
\* the first-move protocol
HmacKeys == {generateSecureRandomKey(buffer) : buffer \in KeyBuffers}
HmacMessages == {Num(n) : n \in 0..(FirstMoveRange - 1)}
HmacRanges == 0..FirstMoveRange

\* a call RandomGenerator.generateSecureRandomKey()
GenerateKey ==
    /\ caller = "none"
    /\ \E buffer \in KeyBuffers : ret' = Str(generateSecureRandomKey(buffer))
    /\ err' = "none"
    /\ lastOp' = "generateSecureRandomKey"
    /\ UNCHANGED <<gameVars, caller, rngVars, dice, protoVars>>

\* a call RandomGenerator.generateHMAC(key, message), entered in the call log
\* with the call that was made before it
GenerateHMAC(key, message) ==
    /\ caller = "none"
    /\ Cardinality(hmacLog) < MaxLog
    /\ ret' = generateHMAC(key, message)
    /\ err' = "none"
    /\ lastOp' = "generateHMAC"
    /\ hmacLog' = hmacLog \cup {[key |-> key, message |-> message,
                                  digest |-> ret', after |-> lastOp]}
    /\ UNCHANGED <<gameVars, caller, rngVars, dice, protocol, protoState,
                   calcCount, lastU, ctorVars>>

NextHmac ==
    \/ GenerateKey
    \/ \E r \in HmacRanges : Sample(r)
    \/ RngDraw
    \/ SampleReturn
    \/ SampleThrow
    \/ \E key \in HmacKeys, message \in HmacMessages : GenerateHMAC(key, message)

SpecHmac == InitLibrary /\ [][NextHmac]_vars

----------------------------------------------------------------------------
(* Strings typed by the user and given on the command line *)

IsDigit(c) == \E i \in 1..Len(DecDigits) : DecDigits[i] = c
IsHexDigit(c) == \E i \in 1..Len(HexDigits) : HexDigits[i] = c
DigitValue(c) == CHOOSE i \in 0..9 : DecDigits[i + 1] = c

RECURSIVE TrimLeft(_)
TrimLeft(s) ==
    IF s # <<>> /\ Head(s) = " " THEN TrimLeft(Tail(s)) ELSE s

RECURSIVE TrimRight(_)
TrimRight(s) ==
    IF s # <<>> /\ s[Len(s)] = " " THEN TrimRight(SubSeq(s, 1, Len(s) - 1)) ELSE s

\* the longest prefix of s made of decimal digits
RECURSIVE DigitPrefix(_)
DigitPrefix(s) ==
    IF s # <<>> /\ IsDigit(Head(s)) THEN <<Head(s)>> \o DigitPrefix(Tail(s)) ELSE <<>>

\* the longest prefix of s made of hex digits
RECURSIVE HexPrefix(_)
HexPrefix(s) ==
    IF s # <<>> /\ IsHexDigit(Head(s)) THEN <<Head(s)>> \o HexPrefix(Tail(s)) ELSE <<>>

RECURSIVE DecFold(_, _)
DecFold(acc, s) ==
    IF s = <<>> THEN acc ELSE DecFold(acc * 10 + DigitValue(Head(s)), Tail(s))

HasHexPrefix(s) == Len(s) >= 2 /\ s[1] = "0" /\ s[2] = "x"

\* parseInt(s): leading blanks, a sign, then the longest run of digits
\* (hex digits after 0x); NaN when the run is empty
ParseInt(s) ==
    LET t == TrimLeft(s)
        neg == t # <<>> /\ Head(t) = "-"
        u == IF t # <<>> /\ Head(t) \in {"-", "+"} THEN Tail(t) ELSE t
        hex == HasHexPrefix(u)
        d == IF hex THEN HexPrefix(SubSeq(u, 3, Len(u)))
             ELSE DigitPrefix(u)
        n == IF hex THEN HexFold(0, d) ELSE DecFold(0, d)
    IN  IF d = <<>> THEN NaN ELSE Num(IF neg THEN -n ELSE n)

\* Number(s) on strings of digits, signs, blanks and letters: the whole
\* trimmed string must be a numeral, and the empty string is 0
JsNumber(s) ==
    LET t == TrimRight(TrimLeft(s))
        neg == t # <<>> /\ Head(t) = "-"
        u == IF t # <<>> /\ Head(t) \in {"-", "+"} THEN Tail(t) ELSE t
        h == SubSeq(t, 3, Len(t))
    IN  CASE t = <<>> -> Num(0)
          [] HasHexPrefix(t) ->
               IF h # <<>> /\ HexPrefix(h) = h THEN Num(HexFold(0, h)) ELSE NaN
          [] OTHER ->
               IF u # <<>> /\ DigitPrefix(u) = u
               THEN Num(IF neg THEN -DecFold(0, u) ELSE DecFold(0, u))
               ELSE NaN

\* s.split(","): the pieces between the commas, the empty ones too
RECURSIVE SplitFrom(_, _)
SplitFrom(s, piece) ==
    IF s = <<>> THEN <<piece>>
    ELSE IF Head(s) = "," THEN <<piece>> \o SplitFrom(Tail(s), <<>>)
    ELSE SplitFrom(Tail(s), Append(piece, Head(s)))

Split(s) == SplitFrom(s, <<>>)

\* pieces.join(",")
RECURSIVE Join(_)
Join(pieces) ==
    IF pieces = <<>> THEN <<>>
    ELSE IF Len(pieces) = 1 THEN pieces[1]
    ELSE pieces[1] \o <<",">> \o Join(Tail(pieces))

----------------------------------------------------------------------------
(* DiceConfigParser.parseDiceConfig *)

FacesPerDice == 6
MinDice == 3

\* arg.split(",").map(Number)
ParseArg(arg) == LET pieces == Split(arg) IN [i \in 1..Len(pieces) |-> JsNumber(pieces[i])]

\* dice.length !== 6 alone, without dice.some(isNaN)
BadDice_lengthOnly(d) == Len(d) # FacesPerDice

\* dice.length !== 6 || dice.some(isNaN)
BadDice(d) == Len(d) # FacesPerDice \/ \E i \in 1..Len(d) : d[i].t = "NaN"

\* the result of parseDiceConfig(args): the dice, or the message of the
\* Error it throws (the first bad argument stops the map)
parseDiceConfig(args) ==
    IF Len(args) < MinDice
    THEN [ok |-> FALSE, message |-> "Invalid number of dice", dice |-> <<>>]
    ELSE IF \E i \in 1..Len(args) : BadDice(ParseArg(args[i]))
    THEN [ok |-> FALSE, message |-> "Invalid dice format", dice |-> <<>>]
    ELSE [ok |-> TRUE, message |-> "",
          dice |-> [i \in 1..Len(args) |->
                      [j \in 1..FacesPerDice |-> ParseArg(args[i])[j].v]]]

----------------------------------------------------------------------------
(* main and GameFlow *)

ComputerDiceIndex == 1

\* the command lines tried
FromFaces(faces) == Join([i \in 1..Len(faces) |-> NatToString(faces[i])])
ArgA == FromFaces(<<2, 2, 4, 4, 9, 9>>)
ArgB == FromFaces(<<6, 8, 1, 1, 8, 6>>)
ArgC == FromFaces(<<7, 5, 3, 7, 5, 3>>)
ArgShort == FromFaces(<<1, 2, 3, 4, 5>>)
ArgLetter == Join(<<<<"1">>, <<"2">>, <<"x">>, <<"4">>, <<"5">>, <<"6">>>>)
ArgEmpties == <<",", ",", ",", ",", ",">>

ArgvSet ==
    { <<>>,
      <<ArgA, ArgB>>,
      <<ArgA, ArgB, ArgC>>,
      <<ArgC, ArgA, ArgB, ArgA>>,
      <<ArgA, ArgShort, ArgC>>,
      <<ArgA, ArgB, ArgLetter>>,
      <<ArgA, ArgEmpties, ArgC>> }

\* the lines the user types
GuessInputs == { <<"0">>, <<"1">>, <<"2">>, <<"x">>, <<>>, <<" ", "1">> }
ChoiceInputs == { <<"0">>, <<"1">>, <<"2">>, <<"3">>, <<"-", "1">>, <<"x">>, <<>> }

Line(tag, payload) == [tag |-> tag, payload |-> payload]

\* a === b on numbers
StrictEq(a, b) == IsInt(a) /\ IsInt(b) /\ a.v = b.v

JsGt(a, b) == IsInt(a) /\ IsInt(b) /\ a.v > b.v
JsLt(a, b) == IsInt(a) /\ IsInt(b) /\ a.v < b.v

\* diceSet.at(index): a negative index counts from the end
DiceAt_at(set, index) ==
    IF IsInt(index) /\ index.v \in (-Len(set))..(Len(set) - 1)
    THEN [exists |-> TRUE,
          values |-> set[((index.v + Len(set)) % Len(set)) + 1]]
    ELSE NoDice

\* diceSet[index]: the Dice, or undefined
DiceAt(set, index) ==
    IF IsInt(index) /\ index.v \in 0..(Len(set) - 1)
    THEN [exists |-> TRUE, values |-> set[index.v + 1]]
    ELSE NoDice

\* main's catch block: the message on stderr and the usage line
Caught(message) == <<Line("error", message), Line("usage", <<>>)>>

\* the lines of selectUserDice up to the prompt
ChooseLines(set) ==
    <<Line("choose", <<>>)>>
    \o [i \in 1..Len(set) |-> Line("dice", <<i - 1, set[i]>>)]
    \o <<Line("prompt", "selection")>>

\* the line startGame prints after the guess: the number and the key
SelectionLine(p) == Line("selection", <<p.computerNumber, p.secretKey>>)

\* the announcement of the first mover, the guess converted with Number()
FirstMoverLine_number(guess, p) ==
    IF StrictEq(JsNumber(guess), p.computerNumber)
    THEN Line("you-first", <<>>)
    ELSE Line("i-first", <<>>)

\* the announcement of the first mover
FirstMoverLine(guess, p) ==
    IF StrictEq(ParseInt(guess), p.computerNumber)
    THEN Line("you-first", <<>>)
    ELSE Line("i-first", <<>>)

Init ==
    /\ InitObjects
    /\ pc = "main"
    /\ argv \in ArgvSet

\* main up to the first point where it waits: parseDiceConfig, new GameFlow,
\* and startGame up to the sampler call inside new FairNumberProtocol(2);
\* or the catch block when parseDiceConfig throws
MainStart ==
    /\ pc = "main"
    /\ LET parsed == parseDiceConfig(argv)
       IN  IF parsed.ok
           THEN /\ diceSet' = parsed.dice
                /\ console' = <<Line("intro", <<>>)>>
                /\ CtorBegin("startGame", FirstMoveRange)
                /\ pc' = "startGame"
                /\ UNCHANGED <<calcCount, lastU, hmacLog>>
           ELSE /\ console' = Caught(parsed.message)
                /\ pc' = "done"
                /\ UNCHANGED <<caller, rngVars, diceSet, protoVars>>
    /\ UNCHANGED <<callVars, dice, argv, userGuess, userDice, userRoll>>

\* startGame printing the number and the key together with the HMAC
StartGameCommit_revealsEarly ==
    /\ pc = "startGame"
    /\ caller = "startGame"
    /\ rngPc = "return"
    /\ CtorEnd
    /\ console' = console \o <<Line("hmac", protocol'.hmac),
                               SelectionLine(protocol'),
                               Line("prompt", "guess")>>
    /\ pc' = "readGuess"
    /\ UNCHANGED <<callVars, dice, calcCount, lastU, hmacLog, argv, diceSet,
                   userGuess, userDice, userRoll>>

\* startGame from the return of the sampler to the prompt for the guess:
\* the constructor ends and the HMAC is printed
StartGameCommit ==
    /\ pc = "startGame"
    /\ caller = "startGame"
    /\ rngPc = "return"
    /\ CtorEnd
    /\ console' = console \o <<Line("hmac", protocol'.hmac),
                               Line("prompt", "guess")>>
    /\ pc' = "readGuess"
    /\ UNCHANGED <<callVars, dice, calcCount, lastU, hmacLog, argv, diceSet,
                   userGuess, userDice, userRoll>>

\* startGame from the guess typed to the prompt of selectUserDice: the
\* number and the key are printed, then the first mover
ReadGuess(input) ==
    /\ pc = "readGuess"
    /\ userGuess' = Str(input)
    /\ console' = console
                  \o <<Line("input", input),
                       SelectionLine(protocol),
                       FirstMoverLine(input, protocol)>>
                  \o ChooseLines(diceSet)
    /\ pc' = "readChoice"
    /\ UNCHANGED <<caller, rngVars, callVars, dice, protoVars, argv, diceSet,
                   userDice, userRoll>>

\* playRounds from the selection typed to the sampler call of userDice.roll();
\* roll() on undefined is a TypeError, which main catches
ReadChoice(input) ==
    /\ pc = "readChoice"
    /\ LET chosen == DiceAt(diceSet, ParseInt(input))
       IN  /\ userDice' = chosen
           /\ IF chosen.exists
              THEN /\ RngCall("userRoll", Len(chosen.values))
                   /\ console' = Append(console, Line("input", input))
                   /\ pc' = "userRoll"
              ELSE /\ console' = Append(console, Line("input", input))
                                 \o Caught("Cannot read properties of undefined")
                   /\ pc' = "done"
                   /\ UNCHANGED <<caller, rngVars>>
    /\ UNCHANGED <<callVars, dice, protoVars, argv, diceSet, userGuess, userRoll>>

\* userDice.roll() returns, computerDice.roll() calls the sampler
UserRollReturn ==
    /\ pc = "userRoll"
    /\ caller = "userRoll"
    /\ rngPc = "return"
    /\ userRoll' = ArrayGet(userDice.values, num)
    /\ RngCall("computerRoll", Len(diceSet[ComputerDiceIndex + 1]))
    /\ pc' = "computerRoll"
    /\ UNCHANGED <<callVars, dice, protoVars, argv, diceSet, console, userGuess,
                   userDice>>

\* the line that tells the outcome of the round
OutcomeLine(mine, yours) ==
    IF JsGt(yours, mine) THEN Line("you-win", <<>>)
    ELSE IF JsLt(yours, mine) THEN Line("i-win", <<>>)
    ELSE Line("draw", <<>>)

\* computerDice.roll() returns: both throws and the outcome are printed
ComputerRollReturn ==
    /\ pc = "computerRoll"
    /\ caller = "computerRoll"
    /\ rngPc = "return"
    /\ LET computerRoll == ArrayGet(diceSet[ComputerDiceIndex + 1], num)
       IN  console' = console \o <<Line("your-throw", userRoll),
                                   Line("my-throw", computerRoll),
                                   OutcomeLine(computerRoll, userRoll)>>
    /\ RngIdle
    /\ pc' = "done"
    /\ UNCHANGED <<callVars, dice, protoVars, argv, diceSet, userGuess,
                   userDice, userRoll>>

Next ==
    \/ MainStart
    \/ RngDraw
    \/ StartGameCommit
    \/ \E input \in GuessInputs : ReadGuess(input)
    \/ \E input \in ChoiceInputs : ReadChoice(input)
    \/ UserRollReturn
    \/ ComputerRollReturn

Spec == Init /\ [][Next]_vars

----------------------------------------------------------------------------
(* Properties of the sampler and of Dice, under SpecSampler *)

\* the last library call is over and was `op`
Done(op) == caller = "none" /\ lastOp = op

Returned(op) == Done(op) /\ err = "none"

\* C1: for every range > 0, a value returned by
\* generateSecureRandomNumber(range) is an integer v with 0 <= v < range
C1_SampleInRange ==
    (Returned("sample") /\ rngRange > 0)
        => (IsInt(ret) /\ ret.v >= 0 /\ ret.v < rngRange)

\* C2: generateSecureRandomNumber(1) always returns the integer 0
C2_SampleOneIsZero ==
    (Returned("sample") /\ rngRange = 1) => ret = Num(0)

\* C3: for a Dice of length >= 1, roll() returns an element of its face list
C3_RollReturnsFace ==
    (Returned("roll") /\ Len(dice.values) >= 1)
        => \E i \in 1..Len(dice.values) : ret = Num(dice.values[i])

\* C8: for every range <= 0, generateSecureRandomNumber(range) fails with
\* InvalidRangeError, raised by its own validation
C8_InvalidRangeError ==
    (Done("sample") /\ rngRange <= 0) => err = "InvalidRangeError"

\* C9: no Dice object with zero faces ever exists, and roll() is never
\* invoked on an empty die
C9_NoEmptyDice ==
    /\ dice.exists => Len(dice.values) >= 1
    /\ caller = "roll" => Len(dice.values) >= 1

----------------------------------------------------------------------------
(* Properties of the byte width and of the loop, under SpecSampler and
   SpecSamplerFair *)

RECURSIVE Pow(_, _)
Pow(b, e) == IF e = 0 THEN 1 ELSE b * Pow(b, e - 1)

\* the number of candidates a draw of w bytes can deliver
Candidates(w) == Pow(ByteMax + 1, w)

\* the w bytes that stand for v, most significant first
RECURSIVE Encode(_, _)
Encode(v, w) ==
    IF w = 0 THEN <<>>
    ELSE Append(Encode(v \div (ByteMax + 1), w - 1), v % (ByteMax + 1))

\* some buffer of `size` bytes makes generateSecureRandomNumber(range) return v
CanReturn(v, range, size) ==
    /\ IsInt(size)
    /\ size.v >= 0
    /\ v < Candidates(size.v)
    /\ ParseIntHex(ToHex(Encode(v, size.v))) = Num(v)
    /\ ~Redraw(ParseIntHex(ToHex(Encode(v, size.v))), range)

\* C11: for every range >= 2 more than half of the 256^w candidates are
\* accepted: 256^w < 2 * range
C11_MoreThanHalfAccepted ==
    (rngPc = "draw" /\ rngRange >= 2)
        => (IsInt(byteSize) /\ Candidates(byteSize.v) < 2 * rngRange)

\* C12: for every range > 0 and a fair entropy source the loop exits and the
\* call returns; an iteration redraws exactly when its candidate is >= range,
\* and the value returned is the first candidate that is < range
C12_LoopExitsWithFirstAccepted ==
    /\ (rngPc = "draw" /\ rngRange > 0) ~> (rngPc = "idle")
    /\ [][(rngPc = "draw" /\ rngRange > 0) =>
            /\ (rngPc' = "draw") <=> (IsInt(num') /\ num'.v >= rngRange)
            /\ (rngPc' = "return") => (IsInt(num') /\ num'.v < rngRange)]_vars
    /\ [][(rngPc = "return" /\ caller = "sample") => ret' = num]_vars

\* C13: for every range > 0 the byte width is the least w with
\* 256^w >= range, and every v in [0, range) is a possible result; so every
\* index of a die's face list is a possible outcome of roll()
C13_EveryValuePossible ==
    (rngPc = "draw" /\ rngRange > 0) =>
        /\ IsInt(byteSize)
        /\ Candidates(byteSize.v) >= rngRange
        /\ byteSize.v > 0 => Candidates(byteSize.v - 1) < rngRange
        /\ \A v \in 0..(rngRange - 1) : CanReturn(v, rngRange, byteSize)
        /\ caller = "roll" =>
             /\ rngRange = Len(dice.values)
             /\ \A i \in 1..Len(dice.values) :
                   ArrayGet(dice.values, Num(i - 1)) = Num(dice.values[i])

----------------------------------------------------------------------------
(* Properties of FairNumberProtocol, under SpecProtocol *)

\* C5: once constructed, the committed number, the key and the commitment
\* of an instance never change, and the commitment getHMAC returns is
\* generateHMAC(revealKey(), getComputerNumber())
C5_CommitmentStable ==
    /\ [](protoState = "ready" =>
            /\ protocol.hmac =
                 generateHMAC(protocol.secretKey, protocol.computerNumber)
            /\ Returned("getHMAC") =>
                 ret = generateHMAC(protocol.secretKey, protocol.computerNumber))
    /\ [][(protoState = "ready" /\ protoState' = "ready")
             => protocol' = protocol]_vars

\* C5 witness: getHMAC returned the commitment after a calculateResult call
C5_Witness ==
    /\ Returned("getHMAC")
    /\ calcCount >= 1
    /\ IsInt(protocol.computerNumber)
    /\ ret = protocol.hmac

\* C6: for every range n >= 1 and every integer u, calculateResult(u)
\* returns (committedNumber + u) mod n, a value in [0, n)
C6_ResultIsMod ==
    (Returned("calculateResult") /\ protocol.range >= 1)
        => /\ IsInt(protocol.computerNumber)
           /\ ret = Num((protocol.computerNumber.v + lastU) % protocol.range)

\* C7: revealKey or getComputerNumber before the counterpart value was
\* supplied to calculateResult, or a second calculateResult on the same
\* instance, raises ProtocolStateError
C7_ProtocolStateError ==
    /\ ((Done("revealKey") \/ Done("getComputerNumber")) /\ calcCount = 0)
          => err = "ProtocolStateError"
    /\ (Done("calculateResult") /\ calcCount >= 2)
          => err = "ProtocolStateError"

\* the protocol object with c as its committed number
Committed(c) == [protocol EXCEPT !.computerNumber = Num(c)]

----------------------------------------------------------------------------
(* Properties of the construction of FairNumberProtocol, under SpecProtocol *)

\* the steps construction i has taken, in the order it took them
RECURSIVE StepsOf(_, _)
StepsOf(log, i) ==
    IF log = <<>>
    THEN <<>>
    ELSE IF Head(log).instance = i
         THEN <<Head(log)>> \o StepsOf(Tail(log), i)
         ELSE StepsOf(Tail(log), i)

StepNames(log, i) ==
    [k \in DOMAIN StepsOf(log, i) |-> StepsOf(log, i)[k].step]

\* the key a construction draws and the key its HMAC is computed with are
\* its own, whatever the number of constructions before it
OwnKey(log, i) ==
    \A k \in DOMAIN log :
        (log[k].instance = i /\ log[k].step # "sample") => log[k].keyOwner = i

\* C15: every construction of a FairNumberProtocol takes, in this order, one
\* draw of a fresh key, one sample of the committed number, which lies in
\* [0, range), and one HMAC computation over that key and that number; the
\* key drawn for one instance is never the key of the commitment of another
C15_ConstructionSteps ==
    /\ \A i \in 1..protoId :
         /\ StepNames(ctorLog, i) \in {<<"key", "sample">>,
                                      <<"key", "sample", "hmac">>}
         /\ OwnKey(ctorLog, i)
    /\ protoState = "constructing" =>
         /\ StepNames(ctorLog, protoId) = <<"key", "sample">>
         /\ rngRange = protocol.range
    /\ protoState = "ready" =>
         /\ StepNames(ctorLog, protoId) = <<"key", "sample", "hmac">>
         /\ keyOwner = protoId
         /\ protocol.hmac = generateHMAC(protocol.secretKey,
                                         protocol.computerNumber)
         /\ IsInt(protocol.computerNumber)
         /\ protocol.computerNumber.v >= 0
         /\ protocol.computerNumber.v < protocol.range

----------------------------------------------------------------------------
(* Properties of the game, under Spec *)

\* the user's guess has been read
GuessRead == userGuess.t = "string"

\* the positions of the terminal where a line with this tag stands
Positions(tag) == {i \in 1..Len(console) : console[i].tag = tag}

\* the position where the guess was typed: the first line typed
GuessPosition == CHOOSE i \in Positions("input") : \A j \in Positions("input") : i <= j

\* C4: the HMAC is displayed before the user's guess is read, and the
\* committed number and the key are displayed only after it has been read
C4_CommitBeforeGuessBeforeReveal ==
    /\ GuessRead <=> Positions("input") # {}
    /\ GuessRead => \E i \in Positions("hmac") : i < GuessPosition
    /\ \A i \in Positions("selection") : GuessRead /\ GuessPosition < i
    /\ ~GuessRead =>
         \A i \in 1..Len(console) :
            console[i].tag \in {"intro", "hmac", "prompt", "error", "usage"}

\* C4 witness: the number and the key of the commitment are on the terminal
C4_Witness ==
    /\ pc = "readChoice"
    /\ \E i \in Positions("selection") :
          console[i].payload = <<protocol.computerNumber, protocol.secretKey>>
    /\ \E i \in Positions("hmac") : console[i].payload = protocol.hmac

\* the positions of the announcement of the first mover
FirstMoverPositions == Positions("you-first") \cup Positions("i-first")

\* the lines of the selection of a die, of the throws and of the outcome
RoundTags ==
    {"choose", "dice", "your-throw", "my-throw", "you-win", "i-win", "draw"}

\* C16: startGame announces the user as first mover exactly when the parsed
\* guess equals the committed number and the computer for every other input
\* (the other number, a number outside {0, 1}, no number); exactly one of
\* the two announcements is printed, after the reveal of the number and the
\* key and before any die is selected or rolled
C16_FirstMoverAnnounced ==
    /\ ~GuessRead => FirstMoverPositions = {}
    /\ caller \in {"userRoll", "computerRoll"} => FirstMoverPositions # {}
    /\ GuessRead =>
         /\ Cardinality(FirstMoverPositions) = 1
         /\ IsInt(protocol.computerNumber)
         /\ Positions("you-first") # {} <=>
               /\ IsInt(ParseInt(userGuess.s))
               /\ ParseInt(userGuess.s).v = protocol.computerNumber.v
         /\ userGuess.s = NatToString(protocol.computerNumber.v)
               => Positions("you-first") # {}
         /\ userGuess.s = NatToString(1 - protocol.computerNumber.v)
               => Positions("i-first") # {}
         /\ userGuess.s \in {<<"2">>, <<"x">>, <<>>}
               => Positions("i-first") # {}
         /\ \A p \in FirstMoverPositions :
               /\ \E i \in Positions("selection") : i < p
               /\ \A i \in 1..Len(console) :
                     console[i].tag \in RoundTags => p < i

\* C16 witness: the guess was right, the user was announced as first mover
\* and the round was played after it
C16_Witness ==
    /\ pc = "done"
    /\ userGuess = Str(NatToString(protocol.computerNumber.v))
    /\ Positions("you-first") # {}
    /\ Positions("your-throw") # {}

\* a game was started: new GameFlow(...).startGame() printed its first line
GameStarted == Positions("intro") # {}

\* the argument gives exactly 6 numbers when split at the commas
SixNumbers(arg) ==
    /\ Len(ParseArg(arg)) = 6
    /\ \A i \in 1..Len(ParseArg(arg)) : IsInt(ParseArg(arg)[i])

\* C17: in every game started through main the dice set has at least 3 dice
\* of exactly 6 faces each, so diceSet[1] exists and the sampler is only
\* called with range 2 or range 6; with fewer than 3 arguments, or with an
\* argument that does not give exactly 6 numbers, no protocol instance is
\* created and no prompt is issued
C17_ValidatedDice ==
    /\ GameStarted =>
         /\ Len(diceSet) >= 3
         /\ \A i \in 1..Len(diceSet) : Len(diceSet[i]) = 6
         /\ DiceAt(diceSet, Num(1)).exists
         /\ DiceAt(diceSet, Num(1)).values = diceSet[2]
    /\ rngPc # "idle" => GameStarted /\ rngRange \in {2, 6}
    /\ caller = "startGame" => rngRange = 2
    /\ caller \in {"userRoll", "computerRoll"} => rngRange = 6
    /\ (pc # "main" /\ (Len(argv) < 3 \/ \E i \in 1..Len(argv) : ~SixNumbers(argv[i]))) =>
         /\ ~GameStarted
         /\ protoId = 0
         /\ protoState = "none"
         /\ Positions("prompt") = {}
         /\ Positions("input") = {}
         /\ pc = "done"

\* C17 witness: a game of four dice where the computer rolls diceSet[1]
C17_Witness ==
    /\ GameStarted
    /\ Len(diceSet) = 4
    /\ caller = "computerRoll"
    /\ rngPc = "draw"
    /\ rngRange = Len(diceSet[2])

\* the user's selection of a die has been typed: the second line typed
SelectionRead == Cardinality(Positions("input")) = 2

\* the text typed as the selection
Selection ==
    console[CHOOSE i \in Positions("input") : GuessPosition < i].payload

\* the selection is the index of a die
ValidSelection ==
    /\ IsInt(ParseInt(Selection))
    /\ ParseInt(Selection).v >= 0
    /\ ParseInt(Selection).v < Len(diceSet)

\* the positions of the line that tells the outcome of the round
OutcomePositions ==
    Positions("you-win") \cup Positions("i-win") \cup Positions("draw")

\* the tag of the outcome of a round with these two throws
OutcomeOf(yours, mine) ==
    IF yours > mine THEN "you-win" ELSE IF yours < mine THEN "i-win" ELSE "draw"

\* the lines of main's catch block end the terminal
EndsCaught ==
    /\ Len(console) >= 2
    /\ console[Len(console) - 1].tag = "error"
    /\ console[Len(console)].tag = "usage"

\* C18: for a valid selection playRounds rolls the user's die and the
\* computer's die once each and prints exactly one of the three outcomes,
\* the one that userRoll >, <, = computerRoll tells; for an invalid selection
\* no die is rolled and no outcome is printed, main catches the error and
\* reports it with the usage line; no exception escapes main
C18_RoundOrCaughtError ==
    /\ rngPc # "thrown"
    /\ pc # "done" => ENABLED Next
    /\ ~SelectionRead =>
         /\ userRoll = Undefined
         /\ Positions("your-throw") \cup Positions("my-throw") = {}
         /\ OutcomePositions = {}
         /\ caller \notin {"userRoll", "computerRoll"}
    /\ (SelectionRead /\ ValidSelection) =>
         /\ pc \in {"userRoll", "computerRoll", "done"}
         /\ userDice.exists
         /\ userDice.values = diceSet[ParseInt(Selection).v + 1]
         /\ Positions("error") = {}
         /\ pc = "userRoll" =>
              /\ caller = "userRoll"
              /\ rngRange = Len(userDice.values)
              /\ userRoll = Undefined
         /\ pc = "computerRoll" =>
              /\ caller = "computerRoll"
              /\ rngRange = Len(diceSet[2])
         /\ pc # "userRoll" =>
              /\ IsInt(userRoll)
              /\ \E k \in 1..Len(userDice.values) :
                    userRoll.v = userDice.values[k]
         /\ pc # "done" =>
              /\ Positions("your-throw") \cup Positions("my-throw") = {}
              /\ OutcomePositions = {}
         /\ pc = "done" =>
              /\ Cardinality(Positions("your-throw")) = 1
              /\ Cardinality(Positions("my-throw")) = 1
              /\ Cardinality(OutcomePositions) = 1
              /\ \A y \in Positions("your-throw"), m \in Positions("my-throw"),
                    o \in OutcomePositions :
                    /\ console[y].payload = userRoll
                    /\ IsInt(console[m].payload)
                    /\ \E k \in 1..Len(diceSet[2]) :
                          console[m].payload.v = diceSet[2][k]
                    /\ console[o].tag = OutcomeOf(console[y].payload.v,
                                                  console[m].payload.v)
                    /\ y < m /\ m < o
    /\ (SelectionRead /\ ~ValidSelection) =>
         /\ pc = "done"
         /\ ~userDice.exists
         /\ userRoll = Undefined
         /\ Positions("your-throw") \cup Positions("my-throw") = {}
         /\ OutcomePositions = {}
         /\ Cardinality(Positions("error")) = 1
         /\ EndsCaught

\* C18 witness: a round was played with a valid selection and the user won
C18_Witness ==
    /\ pc = "done"
    /\ SelectionRead
    /\ ValidSelection
    /\ Positions("you-win") # {}

----------------------------------------------------------------------------
(* Properties of generateHMAC, under SpecHmac *)

====
